---- MODULE Spec2Model ----
(***************************************************************************)
(* A model of the concurrency core of lvmdbusd:                            *)
(*   daemons/lvmdbusd/utils.py      (path allocation, classification,      *)
(*                                   main-thread marshalling, the signal   *)
(*                                   handler and the debug queue, the lock *)
(*                                   file, the --config option)            *)
(*   daemons/lvmdbusd/background.py (request threads, move/merge)          *)
(* Each part of the daemon has its own group of variables and its own      *)
(* specification; a specification leaves the other groups at rest.         *)
(***************************************************************************)
EXTENDS Integers, Sequences, FiniteSets, TLC

VARIABLES
    \* lv_object_path_method(name, meta): one call and what it gave
    lv_name,        \* the name argument, a sequence of characters
    lv_meta,        \* the meta argument: <<lv_attr characters, layout words>>
    path_method,    \* the generator function returned, or the fault raised
    cls_pc,         \* "call" before the call, "done" after it
    \* the object path generators and the counters of cfg they draw from
    ids,            \* counter name -> the value its next() will give
    gen_pc,         \* worker -> "idle" | "format"
    gen_call,       \* worker -> the generator it is in and the integer it drew
    allocated,      \* history: <<generator, integer>> in the order of the next() calls
    returned,       \* history: the paths handed back to callers, in order
    \* the main-thread marshalling: mt_async_call and MThreadRunner
    calls,          \* every call handed to GLib.idle_add, in the order of idle_add;
                    \* a call of MThreadRunner carries the object's fields
    idle_q,         \* GLib's idle sources not yet dispatched: indexes into calls
    w_pc,           \* worker -> where it is in MThreadRunner.done()
    w_obj,          \* worker -> the call whose done() it is in
    finished,       \* history: how each done() ended, by call
    d_pc,           \* the dispatch thread: "loop" | "run" | "notify"
    d_obj,          \* the MThreadRunner the dispatch thread is in runner() of
    applied,        \* history: the callbacks executed, in order, and what each did
    log_errors,     \* the faults _async_handler logged
    loop_fault,     \* a fault that left a handler into the dispatch loop
    \* background.py: one move or merge, run by the thread of its request
    mv_op,          \* the call: move or merge, and which of its references resolve
    mv_pc,          \* where the thread is in move/merge/_move_merge
    job_state,      \* the JobState handed in: [Percent |-> n]
    percent_log,    \* history: every assignment to job_state.Percent: value,
                    \* thread, whether for a line or the exit code, the input
    flightrecorder, \* cfg.flightrecorder: the LvmExecutionMeta kept, oldest first
    fr0,            \* history: cfg.flightrecorder when the call began
    worker_q,       \* cfg.worker_q: the RequestEntry objects put by _move_callback
    spawned,        \* history: the number of external processes started
    n_lines,        \* the number of output lines call_lvm has delivered
    lvm_result,     \* what call_lvm returned: [ec, stdout, stderr], or None
    mv_fault,       \* the fault move/merge raised, or None
    loads,          \* history: the threads that ran cfg.load() themselves
    mv_log,         \* the log_error calls of _move_callback
    n_match,        \* history: the delivered lines "<device>:<ignored>:<number>%"
    \* background.py: cmd_runner and the threads it starts
    threads,        \* request -> the state of the thread started for it
    tids,           \* request -> the identity of that thread (0: none yet)
    run_count,      \* history: request -> the number of calls of req.run_cmd()
    outcomes,       \* history: request -> the outcomes its run_cmd() ended in
    \* utils.py: handler(signum), DebugMessages and log_debug
    ignore_sigterm, \* cfg.ignore_sigterm
    run,            \* cfg.run.value
    loop,           \* cfg.loop: None, or the main loop "running" or told to "quit"
    SHELL_IN_USE,   \* cfg.SHELL_IN_USE: None or the lvm shell
    shell_exited,   \* exit_shell() of the lvm shell has run
    args_debug,     \* cfg.args.debug
    debug_queue,    \* cfg.debug.queue: the deque of DebugMessages
    sg_pending,     \* a SIGTERM the daemon caused itself is on its way to it
    sg_last,        \* history: the last call of handler and the state it found
    sg_out,         \* what the last call of handler or log_debug wrote out
    \* utils.py: LockFile, one daemon instance per process
    lock_holder,    \* the process that holds the lock on the file, 0: none
    inst_pc,        \* instance -> "start" | "opened" | "body" | "closed" | "exit"
    inst_status,    \* instance -> the status of sys.exit, -1 while it runs
    inst_log,       \* instance -> what __enter__ logged
    inst_entered,   \* history: instance -> the body of the with has begun
    inst_contended, \* history: instance -> another held the lock at its lockf
    \* utils.py: one call of add_no_notify(cmdline)
    cmdline,        \* the list handed in, which the call changes in place
    cmdline0,       \* history: the list as it was handed in
    got_external_event, \* cfg.got_external_event
    cfg_pc,         \* "call" before the call, "done" after it
    cfg_rv,         \* the list returned
    cfg_fault       \* the fault raised, or None

classifyVars == <<lv_name, lv_meta, path_method, cls_pc>>
allocVars == <<ids, gen_pc, gen_call, allocated, returned>>
brokerVars == <<calls, idle_q, w_pc, w_obj, finished, d_pc, d_obj, applied,
                log_errors, loop_fault>>
moveVars == <<mv_op, mv_pc, job_state, percent_log, flightrecorder, fr0,
              worker_q, spawned, n_lines, lvm_result, mv_fault, loads, mv_log,
              n_match>>
runnerVars == <<threads, tids, run_count, outcomes>>
signalVars == <<ignore_sigterm, run, loop, SHELL_IN_USE, shell_exited,
                args_debug, debug_queue, sg_pending, sg_last, sg_out>>
lockVars == <<lock_holder, inst_pc, inst_status, inst_log, inst_entered,
              inst_contended>>
configVars == <<cmdline, cmdline0, got_external_event, cfg_pc, cfg_rv,
                cfg_fault>>
vars == <<classifyVars, allocVars, brokerVars, moveVars, runnerVars,
          signalVars, lockVars, configVars>>

(***************************************************************************)
(* Bounds of the model.                                                    *)
(***************************************************************************)
MaxNameLen == 2
MaxAttrLen == 1
MaxAllocs == 3
MaxCalls == 3
MaxDests == 2
MaxLines == 2
FrCap == 2
MaxRequests == 3
DebugCap == 2
MaxInstances == 3
MaxArgs == 3

Workers == {"w1", "w2"}

RECURSIVE SeqsUpTo(_, _)
SeqsUpTo(S, n) ==
    IF n = 0 THEN {<<>>}
    ELSE LET shorter == SeqsUpTo(S, n - 1)
         IN  shorter \cup {Append(s, c) : s \in shorter, c \in S}

(***************************************************************************)
(* utils.py: lv_object_path_method                                         *)
(***************************************************************************)
NameChars == {"[", "a"}
AttrChars == {"t", "d", "C", "-"}
LayoutWords == {"pool", "cache"}

\* name[0] and meta[0][0] raise IndexError on an empty string.
IndexError == "IndexError"

\* as lv_object_path_method, but the thin pool type code is tested first
lv_object_path_method_thin_first(name, meta) ==
    IF Len(name) > 0 /\ Len(meta[1]) > 0 /\ meta[1][1] = "t"
        THEN "_thin_pool_obj_path_generate"
    ELSE IF Len(name) = 0 THEN IndexError
    ELSE IF name[1] = "[" THEN "_hidden_lv_obj_path_generate"
    ELSE IF Len(meta[1]) = 0 THEN IndexError
    ELSE IF meta[1][1] = "d" THEN "_vdo_pool_object_path_generate"
    ELSE IF meta[1][1] = "C" /\ "pool" \in meta[2]
        THEN "_cache_pool_obj_path_generate"
    ELSE "_lv_obj_path_generate"

lv_object_path_method(name, meta) ==
    IF Len(name) = 0 THEN IndexError
    ELSE IF name[1] = "[" THEN "_hidden_lv_obj_path_generate"
    ELSE IF Len(meta[1]) = 0 THEN IndexError
    ELSE IF meta[1][1] = "t" THEN "_thin_pool_obj_path_generate"
    ELSE IF meta[1][1] = "d" THEN "_vdo_pool_object_path_generate"
    ELSE IF meta[1][1] = "C" /\ "pool" \in meta[2]
        THEN "_cache_pool_obj_path_generate"
    ELSE "_lv_obj_path_generate"

ClassifyInit ==
    /\ lv_name \in SeqsUpTo(NameChars, MaxNameLen)
    /\ lv_meta \in SeqsUpTo(AttrChars, MaxAttrLen) \X SUBSET LayoutWords
    /\ path_method = "none"
    /\ cls_pc = "call"

ClassifyIdle ==
    /\ lv_name = <<>>
    /\ lv_meta = <<<<>>, {}>>
    /\ path_method = "none"
    /\ cls_pc = "idle"

(***************************************************************************)
(* utils.py: the object path generators.  Every generator is               *)
(*     return cfg.<PREFIX> + "/%d" % next(cfg.<counter>)                   *)
(* next() on the counter is one indivisible step of the interpreter; the   *)
(* formatting of the path follows it in the calling thread.                *)
(***************************************************************************)
Generators == {
    "pv_obj_path_generate", "vg_obj_path_generate",
    "_lv_obj_path_generate", "_thin_pool_obj_path_generate",
    "_vdo_pool_object_path_generate", "_cache_pool_obj_path_generate",
    "_hidden_lv_obj_path_generate", "job_obj_path_generate" }

\* as Counter, but the vdo pool generator draws from the thin pool counter
CounterVdoFromThin(g) ==
    CASE g = "pv_obj_path_generate" -> "pv_id"
      [] g = "vg_obj_path_generate" -> "vg_id"
      [] g = "_lv_obj_path_generate" -> "lv_id"
      [] g = "_thin_pool_obj_path_generate" -> "thin_id"
      [] g = "_vdo_pool_object_path_generate" -> "thin_id"
      [] g = "_cache_pool_obj_path_generate" -> "cache_pool_id"
      [] g = "_hidden_lv_obj_path_generate" -> "hidden_lv"
      [] g = "job_obj_path_generate" -> "job_id"

\* the counter of cfg each generator draws from
Counter(g) ==
    CASE g = "pv_obj_path_generate" -> "pv_id"
      [] g = "vg_obj_path_generate" -> "vg_id"
      [] g = "_lv_obj_path_generate" -> "lv_id"
      [] g = "_thin_pool_obj_path_generate" -> "thin_id"
      [] g = "_vdo_pool_object_path_generate" -> "vdo_id"
      [] g = "_cache_pool_obj_path_generate" -> "cache_pool_id"
      [] g = "_hidden_lv_obj_path_generate" -> "hidden_lv"
      [] g = "job_obj_path_generate" -> "job_id"

Prefix(g) ==
    CASE g = "pv_obj_path_generate" -> "PV_OBJ_PATH"
      [] g = "vg_obj_path_generate" -> "VG_OBJ_PATH"
      [] g = "_lv_obj_path_generate" -> "LV_OBJ_PATH"
      [] g = "_thin_pool_obj_path_generate" -> "THIN_POOL_PATH"
      [] g = "_vdo_pool_object_path_generate" -> "VDO_POOL_PATH"
      [] g = "_cache_pool_obj_path_generate" -> "CACHE_POOL_PATH"
      [] g = "_hidden_lv_obj_path_generate" -> "HIDDEN_LV_PATH"
      [] g = "job_obj_path_generate" -> "JOB_OBJ_PATH"

Counters == {"pv_id", "vg_id", "lv_id", "thin_id", "vdo_id", "cache_pool_id",
             "hidden_lv", "job_id"}

AllocInit ==
    /\ ids = [c \in Counters |-> 0]
    /\ gen_pc = [w \in Workers |-> "idle"]
    /\ gen_call = [w \in Workers |-> <<"none", 0>>]
    /\ allocated = <<>>
    /\ returned = <<>>

AllocIdle == AllocInit

\* next(cfg.<counter>): the counters after the call (each is an
\* itertools.count of cfg.py, which gives 0, 1, 2, ...)
CounterNext(counters, c) == [counters EXCEPT ![c] = @ + 1]

notClassify == <<configVars, lockVars, allocVars, brokerVars, moveVars, runnerVars, signalVars>>
notAlloc == <<configVars, lockVars, classifyVars, brokerVars, moveVars, runnerVars, signalVars>>
notBroker == <<configVars, lockVars, classifyVars, allocVars, moveVars, runnerVars, signalVars>>
notMove == <<configVars, lockVars, classifyVars, allocVars, brokerVars, runnerVars, signalVars>>
notRunner == <<configVars, lockVars, classifyVars, allocVars, brokerVars, moveVars, signalVars>>
notSignal == <<configVars, classifyVars, allocVars, brokerVars, moveVars, runnerVars,
              lockVars>>
notConfig == <<classifyVars, allocVars, brokerVars, moveVars, runnerVars,
              signalVars, lockVars>>
notLock == <<configVars, classifyVars, allocVars, brokerVars, moveVars, runnerVars,
            signalVars>>

\* the call of lv_object_path_method(lv_name, lv_meta)
Classify ==
    /\ cls_pc = "call"
    /\ path_method' = lv_object_path_method(lv_name, lv_meta)
    /\ cls_pc' = "done"
    /\ UNCHANGED <<lv_name, lv_meta>>
    /\ UNCHANGED notClassify

\* worker w enters generator g and evaluates next(cfg.<counter>)
GenNext(w, g) ==
    /\ gen_pc[w] = "idle"
    /\ Len(allocated) < MaxAllocs
    /\ gen_call' = [gen_call EXCEPT ![w] = <<g, ids[Counter(g)]>>]
    /\ ids' = CounterNext(ids, Counter(g))
    /\ allocated' = Append(allocated, <<g, ids[Counter(g)]>>)
    /\ gen_pc' = [gen_pc EXCEPT ![w] = "format"]
    /\ UNCHANGED returned
    /\ UNCHANGED notAlloc

\* worker w formats and returns cfg.<PREFIX> + "/%d" % n
GenReturn(w) ==
    /\ gen_pc[w] = "format"
    /\ returned' = Append(returned, <<Prefix(gen_call[w][1]), gen_call[w][2]>>)
    /\ gen_pc' = [gen_pc EXCEPT ![w] = "idle"]
    /\ gen_call' = [gen_call EXCEPT ![w] = <<"none", 0>>]
    /\ UNCHANGED <<ids, allocated>>
    /\ UNCHANGED notAlloc

(***************************************************************************)
(* utils.py: mt_async_call, _async_handler and MThreadRunner.              *)
(* GLib.idle_add attaches an idle source to the main context; the main     *)
(* loop, on the dispatch thread, calls the sources of one priority in the  *)
(* order they were attached, and drops a source whose function returns a   *)
(* false value (both _async_handler and runner return None).               *)
(***************************************************************************)
None == "None"
Values == {"v1", "v2"}
Faults == {"DBusException", "SystemExit"}

\* what one execution of a marshalled function does
Outcomes == [t : {"return"}, v : Values] \cup [t : {"raise"}, v : Faults]

\* isinstance(e, cls) for the two classes the handlers name
IsInstance(e, cls) ==
    CASE cls = "BaseException" -> TRUE
      [] cls = "Exception" -> e = "DBusException"

\* MThreadRunner.__init__, and the record kept for a call of mt_async_call
NewCall(kind, w) ==
    [kind |-> kind, by |-> w, rc |-> None, exception |-> None,
     function_complete |-> FALSE,
     lock |-> "free", waiting |-> FALSE, notified |-> FALSE]

\* as idle_add, but the source is put before the waiting ones
idle_add_front(q, n) == <<n>> \o q

\* GLib.idle_add(handler, ...): the source joins the end of the idle sources
idle_add(q, n) == Append(q, n)

\* as AsyncHandlerCatches, with "except Exception"
AsyncHandlerCatchesException(e) == IsInstance(e, "Exception")

\* _async_handler: except BaseException
AsyncHandlerCatches(e) == IsInstance(e, "BaseException")

\* MThreadRunner._run: except BaseException
RunCatches(e) == IsInstance(e, "BaseException")

\* as DoneMayProceed, without the wait
DoneMayProceedAlways(c) == TRUE

\* MThreadRunner.done: "if not self.function_complete: self.cond.wait()"
DoneMayProceed(c) == c.function_complete

\* as notify_all, but nobody is woken
notify_none(c) == c

\* runner(): obj.cond.notify_all() wakes the thread parked in cond.wait()
notify_all(c) == [c EXCEPT !.notified = c.waiting, !.waiting = FALSE]

\* MThreadRunner.done: "if self.exception: raise self.exception" / "return self.rc"
DoneValue(c) ==
    IF c.exception # None THEN [t |-> "raise", v |-> c.exception]
    ELSE [t |-> "return", v |-> c.rc]

BrokerInit ==
    /\ calls = <<>>
    /\ idle_q = <<>>
    /\ w_pc = [w \in Workers |-> "idle"]
    /\ w_obj = [w \in Workers |-> 0]
    /\ finished = <<>>
    /\ d_pc = "loop"
    /\ d_obj = 0
    /\ applied = <<>>
    /\ log_errors = <<>>
    /\ loop_fault = None

BrokerIdle == BrokerInit

\* worker w: mt_async_call(function_call_back, *parameters)
mt_async_call(w) ==
    /\ w_pc[w] = "idle"
    /\ Len(calls) < MaxCalls
    /\ calls' = Append(calls, NewCall("async", w))
    /\ idle_q' = idle_add(idle_q, Len(calls) + 1)
    /\ UNCHANGED <<w_pc, w_obj, finished, d_pc, d_obj, applied, log_errors,
                   loop_fault>>
    /\ UNCHANGED notBroker

\* worker w: MThreadRunner(function, *args).done(), up to GLib.idle_add
DoneIdleAdd(w) ==
    /\ w_pc[w] = "idle"
    /\ Len(calls) < MaxCalls
    /\ calls' = Append(calls, NewCall("runner", w))
    /\ idle_q' = idle_add(idle_q, Len(calls) + 1)
    /\ w_obj' = [w_obj EXCEPT ![w] = Len(calls) + 1]
    /\ w_pc' = [w_pc EXCEPT ![w] = "acquire"]
    /\ UNCHANGED <<finished, d_pc, d_obj, applied, log_errors, loop_fault>>
    /\ UNCHANGED notBroker

\* done(): "with self.cond:" takes the condition's lock
DoneAcquire(w) ==
    /\ w_pc[w] = "acquire"
    /\ calls[w_obj[w]].lock = "free"
    /\ calls' = [calls EXCEPT ![w_obj[w]].lock = w]
    /\ w_pc' = [w_pc EXCEPT ![w] = "test"]
    /\ UNCHANGED <<idle_q, w_obj, finished, d_pc, d_obj, applied, log_errors,
                   loop_fault>>
    /\ UNCHANGED notBroker

\* done(): the test of function_complete under the lock; cond.wait() gives
\* the lock up and parks the worker, otherwise the with block is left
DoneTest(w) ==
    /\ w_pc[w] = "test"
    /\ IF DoneMayProceed(calls[w_obj[w]])
       THEN /\ calls' = [calls EXCEPT ![w_obj[w]].lock = "free"]
            /\ w_pc' = [w_pc EXCEPT ![w] = "result"]
       ELSE /\ calls' = [calls EXCEPT ![w_obj[w]].lock = "free",
                                      ![w_obj[w]].waiting = TRUE]
            /\ w_pc' = [w_pc EXCEPT ![w] = "wait"]
    /\ UNCHANGED <<idle_q, w_obj, finished, d_pc, d_obj, applied, log_errors,
                   loop_fault>>
    /\ UNCHANGED notBroker

\* done(): cond.wait() returns once notified and the lock is free again;
\* the with block is left
DoneWake(w) ==
    /\ w_pc[w] = "wait"
    /\ calls[w_obj[w]].notified
    /\ calls[w_obj[w]].lock = "free"
    /\ calls' = [calls EXCEPT ![w_obj[w]].notified = FALSE]
    /\ w_pc' = [w_pc EXCEPT ![w] = "result"]
    /\ UNCHANGED <<idle_q, w_obj, finished, d_pc, d_obj, applied, log_errors,
                   loop_fault>>
    /\ UNCHANGED notBroker

\* done(): raise self.exception, or return self.rc
DoneResult(w) ==
    /\ w_pc[w] = "result"
    /\ finished' = Append(finished,
                          [call |-> w_obj[w], got |-> DoneValue(calls[w_obj[w]])])
    /\ w_pc' = [w_pc EXCEPT ![w] = "idle"]
    /\ w_obj' = [w_obj EXCEPT ![w] = 0]
    /\ UNCHANGED <<calls, idle_q, d_pc, d_obj, applied, log_errors, loop_fault>>
    /\ UNCHANGED notBroker

\* the dispatch thread calls _async_handler(call_back, parameters)
AsyncHandler ==
    /\ d_pc = "loop"
    /\ loop_fault = None
    /\ idle_q # <<>>
    /\ calls[Head(idle_q)].kind = "async"
    /\ idle_q' = Tail(idle_q)
    /\ \E o \in Outcomes :
        /\ applied' = Append(applied, [call |-> Head(idle_q), did |-> o])
        /\ IF o.t = "raise"
           THEN IF AsyncHandlerCatches(o.v)
                THEN /\ log_errors' = Append(log_errors, [call |-> Head(idle_q), fault |-> o.v])
                     /\ UNCHANGED loop_fault
                ELSE /\ loop_fault' = o.v
                     /\ UNCHANGED log_errors
           ELSE UNCHANGED <<log_errors, loop_fault>>
    /\ UNCHANGED <<calls, w_pc, w_obj, finished, d_pc, d_obj>>
    /\ UNCHANGED notBroker

\* the dispatch thread calls MThreadRunner.runner(obj): obj._run()
RunnerRun ==
    /\ d_pc = "loop"
    /\ loop_fault = None
    /\ idle_q # <<>>
    /\ calls[Head(idle_q)].kind = "runner"
    /\ idle_q' = Tail(idle_q)
    /\ \E o \in Outcomes :
        /\ applied' = Append(applied, [call |-> Head(idle_q), did |-> o])
        /\ IF o.t = "return"
           THEN /\ calls' = [calls EXCEPT ![Head(idle_q)].rc = o.v]
                /\ d_pc' = "notify"
                /\ d_obj' = Head(idle_q)
                /\ UNCHANGED loop_fault
           ELSE IF RunCatches(o.v)
           THEN /\ calls' = [calls EXCEPT ![Head(idle_q)].exception = o.v]
                /\ d_pc' = "notify"
                /\ d_obj' = Head(idle_q)
                /\ UNCHANGED loop_fault
           ELSE /\ loop_fault' = o.v
                /\ UNCHANGED <<calls, d_pc, d_obj>>
    /\ UNCHANGED <<w_pc, w_obj, finished, log_errors>>
    /\ UNCHANGED notBroker

\* runner(): "with obj.cond:" takes the condition's lock
RunnerAcquire ==
    /\ d_pc = "notify"
    /\ calls[d_obj].lock = "free"
    /\ calls' = [calls EXCEPT ![d_obj].lock = "main"]
    /\ d_pc' = "set"
    /\ UNCHANGED <<idle_q, w_pc, w_obj, finished, d_obj, applied, log_errors,
                   loop_fault>>
    /\ UNCHANGED notBroker

\* runner(): function_complete = True; notify_all(); the with block is left
RunnerComplete ==
    /\ d_pc = "set"
    /\ calls' = [calls EXCEPT
                    ![d_obj] = [notify_all([@ EXCEPT !.function_complete = TRUE])
                                    EXCEPT !.lock = "free"]]
    /\ d_pc' = "loop"
    /\ d_obj' = 0
    /\ UNCHANGED <<idle_q, w_pc, w_obj, finished, applied, log_errors, loop_fault>>
    /\ UNCHANGED notBroker

BrokerNext ==
    \/ \E w \in Workers : mt_async_call(w)
    \/ \E w \in Workers : DoneIdleAdd(w)
    \/ \E w \in Workers : DoneAcquire(w)
    \/ \E w \in Workers : DoneTest(w)
    \/ \E w \in Workers : DoneWake(w)
    \/ \E w \in Workers : DoneResult(w)
    \/ AsyncHandler
    \/ RunnerRun
    \/ RunnerAcquire
    \/ RunnerComplete

(***************************************************************************)
(* background.py: move, merge, _move_merge and _move_callback.             *)
(* The call runs on the thread cmd_runner started for its request;         *)
(* call_lvm (cmdhandler.py) starts the external command, hands every       *)
(* output line to _move_callback on that same thread, and returns the      *)
(* exit code and the captured output when the command has ended.           *)
(***************************************************************************)
OpThread == "cmd_runner"
MainThread == "main"

\* the interface_name argument of move and merge
Interfaces == {"com.redhat.lvmdbus1.Pv", "com.redhat.lvmdbus1.Lv"}

MoveOps ==
    {[kind |-> "move", interface_name |-> n, src_ok |-> s, dests |-> d,
      lv_ok |-> TRUE] :
        n \in Interfaces, s \in BOOLEAN, d \in SeqsUpTo(BOOLEAN, MaxDests)}
    \cup {[kind |-> "merge", interface_name |-> n, src_ok |-> TRUE,
           dests |-> <<>>, lv_ok |-> b] :
        n \in Interfaces, b \in BOOLEAN}

\* dbus.exceptions.DBusException(interface_name, message)
DBusException(interface_name, msg) ==
    [kind |-> "DBusException", interface_name |-> interface_name, msg |-> msg]

NoFault == [kind |-> None, interface_name |-> None, msg |-> <<>>]
NoResult == [set |-> FALSE, ec |-> 0, stdout |-> "", stderr |-> ""]

\* an LvmExecutionMeta of an earlier command
OldMeta == [cmd |-> <<"earlier">>, ended |-> TRUE, ec |-> 0,
            stdout |-> "", stderr |-> ""]

\* as NewMeta, but the entry is made as one that has already ended
NewMetaEnded(command) == [cmd |-> command, ended |-> TRUE, ec |-> 0,
                          stdout |-> "", stderr |-> ""]

\* LvmExecutionMeta(time.time(), 0, command)
NewMeta(command) == [cmd |-> command, ended |-> FALSE, ec |-> -1,
                     stdout |-> "", stderr |-> ""]

\* cfg.flightrecorder.add(meta): a ring of FrCap entries, the oldest dropped
FrAdd(fr, meta) ==
    IF Len(fr) >= FrCap THEN Append(Tail(fr), meta) ELSE Append(fr, meta)

\* meta.completed(ended, ec, stdout, stderr) on the entry added last
FrCompleted(fr, res) ==
    [fr EXCEPT ![Len(fr)] = [@ EXCEPT !.ended = TRUE, !.ec = res.ec,
                                      !.stdout = res.stdout,
                                      !.stderr = res.stderr]]

\* pv_move_lv_cmd and lv_merge_cmd, without the options and the identifiers
pv_move_lv_cmd == <<"pvmove", "-i", "1">>
lv_merge_cmd == <<"lvconvert", "--merge", "-i", "1">>

\* the index of the first destination that does not resolve, 0 when all do
RECURSIVE FirstUnresolved(_, _)
FirstUnresolved(dests, i) ==
    IF i > Len(dests) THEN 0
    ELSE IF ~dests[i] THEN i
    ELSE FirstUnresolved(dests, i + 1)

\* as MoveReferenceFault, without the lookup of the destinations
MoveReferenceFaultSourceOnly(op) ==
    IF ~op.src_ok
    THEN DBusException(op.interface_name, <<"pv_src_obj not found">>)
    ELSE NoFault

\* move: the fault raised for a reference that does not resolve
MoveReferenceFault(op) ==
    IF ~op.src_ok
    THEN DBusException(op.interface_name, <<"pv_src_obj not found">>)
    ELSE IF FirstUnresolved(op.dests, 1) # 0
    THEN DBusException(op.interface_name, <<"PV Destination not found">>)
    ELSE NoFault

\* merge: the fault raised for an LV that does not resolve
MergeReferenceFault(op) ==
    IF ~op.lv_ok THEN DBusException(op.interface_name, <<"LV not present!">>)
    ELSE NoFault

\* an output line as _move_callback sees it: the number of ':' in it, and
\* the text percentage.strip()[:-1] of its last field, which the conversion
\* either rejects with a ValueError or reads as h hundredths
PctHundredths == {-500, 3000, 4250, 4270, 9996, 10000, 15000}
Lines ==
    {[colons |-> 2, num |-> TRUE, h |-> h] : h \in PctHundredths}
    \cup {[colons |-> 1, num |-> TRUE, h |-> 3000],
          [colons |-> 3, num |-> TRUE, h |-> 3000],
          [colons |-> 2, num |-> FALSE, h |-> 0]}

ExitCodes == {0, 1, 5}
Stderrs == {"", "insufficient free space"}

\* round(x, 1) of x = h/100, in tenths: to the nearest tenth, a tie that is
\* exact in binary (.25, .75) to the even tenth
Round1(h) ==
    LET q == h \div 10
        r == h - 10 * q
    IN  IF r < 5 THEN q
        ELSE IF r > 5 THEN q + 1
        ELSE IF q % 2 = 0 THEN q ELSE q + 1

\* int(x) of x = t/10: towards zero
IntOfTenths(t) == IF t >= 0 THEN t \div 10 ELSE -((-t) \div 10)

\* int(round(float(percentage.strip()[:-1]), 1))
PercentOf(h) == IntOfTenths(Round1(h))

\* as QueuePut, with the request lost
QueuePutDropped(q, r) == q

\* cfg.worker_q.put(r)
QueuePut(q, r) == Append(q, r)

\* as ColonsMatch, for every line
ColonsMatchAlways(line) == TRUE

\* _move_callback: "if line_str.count(':') == 2"
ColonsMatch(line) == line.colons = 2

\* as ExitCodeFault, without the captured stderr
ExitCodeFaultNoStderr(interface_name, res) ==
    DBusException(interface_name, <<"Exit code ", ToString(res.ec)>>)

\* _move_merge: the fault raised for a nonzero exit code,
\* 'Exit code %s, stderr = %s' % (str(ec), stderr)
ExitCodeFault(interface_name, res) ==
    DBusException(interface_name,
                  <<"Exit code ", ToString(res.ec), ", stderr = ", res.stderr>>)

\* as ExitOk, for every exit code
ExitOkAlways(ec) == TRUE

\* _move_merge: "if ec == 0"
ExitOk(ec) == ec = 0

MoveInit ==
    /\ mv_op \in MoveOps
    /\ mv_pc = "start"
    /\ job_state = [Percent |-> 0]
    /\ percent_log = <<>>
    /\ flightrecorder \in SeqsUpTo({OldMeta}, FrCap)
    /\ fr0 = flightrecorder
    /\ worker_q = <<>>
    /\ spawned = 0
    /\ n_lines = 0
    /\ lvm_result = NoResult
    /\ mv_fault = NoFault
    /\ loads = <<>>
    /\ mv_log = 0
    /\ n_match = 0

\* no move or merge under way
MoveAtRest ==
    /\ mv_op = [kind |-> "none", interface_name |-> None, src_ok |-> TRUE,
                dests |-> <<>>, lv_ok |-> TRUE]
    /\ mv_pc = "idle"
    /\ job_state = [Percent |-> 0]
    /\ percent_log = <<>>
    /\ worker_q = <<>>
    /\ spawned = 0
    /\ n_lines = 0
    /\ lvm_result = NoResult
    /\ mv_fault = NoFault
    /\ loads = <<>>
    /\ mv_log = 0
    /\ n_match = 0

MoveIdle ==
    /\ MoveAtRest
    /\ flightrecorder = <<>>
    /\ fr0 = <<>>

\* move(): resolve the source and the destinations, build the command
Move ==
    /\ mv_pc = "start"
    /\ mv_op.kind = "move"
    /\ IF MoveReferenceFault(mv_op) # NoFault
       THEN /\ mv_fault' = MoveReferenceFault(mv_op)
            /\ mv_pc' = "fault"
       ELSE /\ mv_pc' = "_move_merge"
            /\ UNCHANGED mv_fault
    /\ UNCHANGED <<mv_op, job_state, percent_log, flightrecorder, fr0, worker_q,
                   spawned, n_lines, lvm_result, loads, mv_log,
                   n_match>>
    /\ UNCHANGED notMove

\* merge(): resolve the LV, build the command
Merge ==
    /\ mv_pc = "start"
    /\ mv_op.kind = "merge"
    /\ IF MergeReferenceFault(mv_op) # NoFault
       THEN /\ mv_fault' = MergeReferenceFault(mv_op)
            /\ mv_pc' = "fault"
       ELSE /\ mv_pc' = "_move_merge"
            /\ UNCHANGED mv_fault
    /\ UNCHANGED <<mv_op, job_state, percent_log, flightrecorder, fr0, worker_q,
                   spawned, n_lines, lvm_result, loads, mv_log,
                   n_match>>
    /\ UNCHANGED notMove

\* _move_merge: meta = LvmExecutionMeta(...); cfg.flightrecorder.add(meta)
MoveMergeAdd ==
    /\ mv_pc = "_move_merge"
    /\ flightrecorder' = FrAdd(flightrecorder,
            NewMeta(IF mv_op.kind = "move" THEN pv_move_lv_cmd ELSE lv_merge_cmd))
    /\ mv_pc' = "call_lvm"
    /\ UNCHANGED <<mv_op, job_state, percent_log, fr0, worker_q, spawned,
                   n_lines, lvm_result, mv_fault, loads, mv_log,
                   n_match>>
    /\ UNCHANGED notMove

\* _move_merge: call_lvm(command, line_cb=_move_callback, cb_data=job_state)
\* starts the external command
CallLvm ==
    /\ mv_pc = "call_lvm"
    /\ spawned' = spawned + 1
    /\ mv_pc' = "running"
    /\ UNCHANGED <<mv_op, job_state, percent_log, flightrecorder, fr0, worker_q,
                   n_lines, lvm_result, mv_fault, loads, mv_log,
                   n_match>>
    /\ UNCHANGED notMove

\* call_lvm hands one output line to _move_callback(job_state, line_str),
\* which returns at once when the line is not taken or the conversion
\* raises ValueError, and else has assigned job_state.Percent and goes on
\* to build and queue the RequestEntry
MoveCallback(line) ==
    /\ mv_pc = "running"
    /\ n_lines < MaxLines
    /\ n_lines' = n_lines + 1
    /\ n_match' = IF line.colons = 2 /\ line.num THEN n_match + 1 ELSE n_match
    /\ IF ColonsMatch(line)
       THEN IF line.num
            THEN /\ job_state' = [job_state EXCEPT !.Percent = PercentOf(line.h)]
                 /\ percent_log' = Append(percent_log,
                        [v |-> PercentOf(line.h), by |-> OpThread,
                         src |-> "line", h |-> line.h])
                 /\ mv_pc' = "worker_q.put"
                 /\ UNCHANGED mv_log
            ELSE /\ mv_log' = mv_log + 1
                 /\ UNCHANGED <<job_state, percent_log, mv_pc>>
       ELSE UNCHANGED <<job_state, percent_log, mv_pc, mv_log>>
    /\ UNCHANGED <<mv_op, flightrecorder, fr0, worker_q, spawned, lvm_result,
                   mv_fault, loads>>
    /\ UNCHANGED notMove

\* _move_callback: r = RequestEntry(-1, _load_wrapper, ...);
\* cfg.worker_q.put(r), and the return to call_lvm
MoveCallbackPut ==
    /\ mv_pc = "worker_q.put"
    /\ worker_q' = QueuePut(worker_q, "_load_wrapper")
    /\ mv_pc' = "running"
    /\ UNCHANGED <<mv_op, job_state, percent_log, flightrecorder, fr0, spawned,
                   n_lines, lvm_result, mv_fault, loads, mv_log, n_match>>
    /\ UNCHANGED notMove

\* the external command ends and call_lvm returns ec, stdout, stderr
CallLvmReturns(ec, err) ==
    /\ mv_pc = "running"
    /\ lvm_result' = [set |-> TRUE, ec |-> ec, stdout |-> "out", stderr |-> err]
    /\ mv_pc' = "returned"
    /\ UNCHANGED <<mv_op, job_state, percent_log, flightrecorder, fr0, worker_q,
                   spawned, n_lines, mv_fault, loads, mv_log,
                   n_match>>
    /\ UNCHANGED notMove

\* _move_merge: meta.completed(ended, ec, stdout, stderr)
MetaCompleted ==
    /\ mv_pc = "returned"
    /\ flightrecorder' = FrCompleted(flightrecorder, lvm_result)
    /\ mv_pc' = "check"
    /\ UNCHANGED <<mv_op, job_state, percent_log, fr0, worker_q, spawned,
                   n_lines, lvm_result, mv_fault, loads, mv_log,
                   n_match>>
    /\ UNCHANGED notMove

\* _move_merge: "if ec == 0: job_state.Percent = 100", else raise
CheckExitCode ==
    /\ mv_pc = "check"
    /\ IF ExitOk(lvm_result.ec)
       THEN /\ job_state' = [job_state EXCEPT !.Percent = 100]
            /\ percent_log' = Append(percent_log,
                    [v |-> 100, by |-> OpThread, src |-> "exit", h |-> 10000])
            /\ mv_pc' = "load"
            /\ UNCHANGED mv_fault
       ELSE /\ mv_fault' = ExitCodeFault(mv_op.interface_name, lvm_result)
            /\ mv_pc' = "fault"
            /\ UNCHANGED <<job_state, percent_log>>
    /\ UNCHANGED <<mv_op, flightrecorder, fr0, worker_q, spawned, n_lines,
                   lvm_result, loads, mv_log,
                   n_match>>
    /\ UNCHANGED notMove

\* _move_merge: cfg.load(); return '/'
FinalLoad ==
    /\ mv_pc = "load"
    /\ loads' = Append(loads, OpThread)
    /\ mv_pc' = "done"
    /\ UNCHANGED <<mv_op, job_state, percent_log, flightrecorder, fr0, worker_q,
                   spawned, n_lines, lvm_result, mv_fault, mv_log,
                   n_match>>
    /\ UNCHANGED notMove

MoveNext ==
    \/ Move
    \/ Merge
    \/ MoveMergeAdd
    \/ CallLvm
    \/ \E line \in Lines : MoveCallback(line)
    \/ MoveCallbackPut
    \/ \E ec \in ExitCodes, err \in Stderrs : CallLvmReturns(ec, err)
    \/ MetaCompleted
    \/ CheckExitCode
    \/ FinalLoad

(***************************************************************************)
(* background.py: cmd_runner and _run_cmd.                                 *)
(***************************************************************************)
Requests == 1..MaxRequests

\* how req.run_cmd() (request.py) can end
RunOutcomes == {"success", "job", "fault"}

\* as ThreadStarted, without t.start()
ThreadNotStarted == "created"

\* cmd_runner: t.start()
ThreadStarted == "started"

\* as Joined, with a t.join() after t.start()
JoinedEveryThread(th) == {r \in Requests : th[r] # "none"}

\* the threads cmd_runner has waited for before it returns to the caller
\* that submits the next request: it calls t.start() and no t.join()
Joined(th) == {}

RunnerInit ==
    /\ threads = [r \in Requests |-> "none"]
    /\ tids = [r \in Requests |-> 0]
    /\ run_count = [r \in Requests |-> 0]
    /\ outcomes = [r \in Requests |-> <<>>]

RunnerIdle == RunnerInit

NewTid == 1 + Cardinality({r \in Requests : tids[r] # 0})

\* cmd_runner(request): t = threading.Thread(target=_run_cmd, ...); t.start()
cmd_runner(r) ==
    /\ threads[r] = "none"
    /\ \A q \in Joined(threads) : threads[q] = "finished"
    /\ tids' = [tids EXCEPT ![r] = NewTid]
    /\ threads' = [threads EXCEPT ![r] = ThreadStarted]
    /\ UNCHANGED <<run_count, outcomes>>
    /\ UNCHANGED notRunner

\* the thread of r enters _run_cmd(req) and calls req.run_cmd()
RunCmdCall(r) ==
    /\ threads[r] = "started"
    /\ run_count' = [run_count EXCEPT ![r] = @ + 1]
    /\ threads' = [threads EXCEPT ![r] = "running"]
    /\ UNCHANGED <<tids, outcomes>>
    /\ UNCHANGED notRunner

\* req.run_cmd() ends, _run_cmd returns and the thread ends
RunCmdEnds(r, o) ==
    /\ threads[r] = "running"
    /\ outcomes' = [outcomes EXCEPT ![r] = Append(@, o)]
    /\ threads' = [threads EXCEPT ![r] = "finished"]
    /\ UNCHANGED <<tids, run_count>>
    /\ UNCHANGED notRunner

RunnerNext ==
    \/ \E r \in Requests : cmd_runner(r)
    \/ \E r \in Requests : RunCmdCall(r)
    \/ \E r \in Requests, o \in RunOutcomes : RunCmdEnds(r, o)

(***************************************************************************)
(* utils.py: handler(signum), DebugMessages and log_debug.                 *)
(* handler runs on the dispatch thread, one call at a time; it cannot see  *)
(* where a signal came from, the origin is kept for the history only.      *)
(* Every call handler makes that writes to stdout, ends the lvm shell or   *)
(* stops the loop can raise; the fault argument names the call that does.  *)
(***************************************************************************)
SIGUSR1 == "SIGUSR1"
SIGUSR2 == "SIGUSR2"
SIGTERM == "SIGTERM"
Signals == {SIGUSR1, SIGUSR2, SIGTERM, "SIGINT"}
Origins == {"external", "internal"}
Msgs == {"m1", "m2"}

\* collections.deque(maxlen=size).append(message)
DequeAppend(q, m) ==
    IF Len(q) >= DebugCap THEN Append(Tail(q), m) ELSE Append(q, m)

\* something written to stdout: debug lines, thread stacks, flight recorder
\* entries or a log line
Out(what, lines, entries) ==
    [what |-> what, lines |-> lines, entries |-> entries]

\* DebugMessages.dump(): "if cfg.args and not cfg.args.debug: ...
\* if len(self.queue):"
DumpWrites(dbg, q) == ~dbg /\ Len(q) > 0

\* handler: "if signum == signal.SIGTERM and cfg.ignore_sigterm"
Suppressed(signum, flag) == signum = SIGTERM /\ flag

\* the calls handler(signum) reaches that can raise
Reached(signum) ==
    IF signum = SIGUSR1
    THEN (IF DumpWrites(args_debug, debug_queue) THEN {"debug.dump"} ELSE {})
         \cup {"dump_threads_stackframe"}
    ELSE IF signum = SIGUSR2
    THEN (IF DumpWrites(args_debug, debug_queue) THEN {"debug.dump"} ELSE {})
         \cup {"flightrecorder.dump"}
    ELSE IF Suppressed(signum, ignore_sigterm) THEN {}
    ELSE (IF SHELL_IN_USE # None THEN {"exit_shell"} ELSE {})
         \cup (IF loop # None THEN {"loop.quit"} ELSE {})

FaultPoints ==
    {"debug.dump", "dump_threads_stackframe", "flightrecorder.dump",
     "exit_shell", "loop.quit"}

\* the except branch of handler: log_error("signal handler: exception ...")
ExceptionLogged(fault) ==
    Out("log_error", <<"signal handler: exception", fault>>, <<>>)

\* log_error(...) of the except branch ends in print and sys.stdout.flush()
\* (_common_log), which write the line or raise when stdout cannot be
\* written
LogOutcomes == {"written", "raises"}

\* how handler(signum) ends: "return True" after the try statement, unless
\* a fault was caught and the except branch raised one of its own
HandlerReturn(fault, log) ==
    IF fault # None /\ log = "raises" THEN "raised" ELSE "True"

\* what of the output of the call reaches stdout
HandlerOut(out, fault, log) ==
    IF fault # None /\ log = "raises" THEN SubSeq(out, 1, Len(out) - 1)
    ELSE out

\* cfg.debug.dump() that does not raise: what it writes, what it leaves
DebugDumped(dbg, q) ==
    IF DumpWrites(dbg, q) THEN <<Out("debug", q, <<>>)>> ELSE <<>>

\* as DebugLeft, without self.queue.clear()
DebugLeftUncleared(dbg, q) == q

DebugLeft(dbg, q) == IF DumpWrites(dbg, q) THEN <<>> ELSE q

\* the state handler(signum) leaves and what it writes, when the call named
\* by fault raises (None: no call raises)
HandlerEffect(signum, fault) ==
    LET st == [flag |-> ignore_sigterm, queue |-> debug_queue, run |-> run,
               loop |-> loop, shell_exited |-> shell_exited,
               out |-> <<>>, branch |-> "exit"]
        dumped == DebugDumped(args_debug, debug_queue)
        left == DebugLeft(args_debug, debug_queue)
    IN  IF signum = SIGUSR1
        THEN IF fault = "debug.dump"
             THEN [st EXCEPT !.branch = "usr1",
                             !.out = <<ExceptionLogged(fault)>>]
             ELSE IF fault = "dump_threads_stackframe"
             THEN [st EXCEPT !.branch = "usr1", !.queue = left,
                             !.out = dumped \o <<ExceptionLogged(fault)>>]
             ELSE [st EXCEPT !.branch = "usr1", !.queue = left,
                             !.out = dumped \o <<Out("stacks", <<>>, <<>>)>>]
        ELSE IF signum = SIGUSR2
        THEN IF fault = "debug.dump"
             THEN [st EXCEPT !.branch = "usr2",
                             !.out = <<ExceptionLogged(fault)>>]
             ELSE IF fault = "flightrecorder.dump"
             THEN [st EXCEPT !.branch = "usr2", !.queue = left,
                             !.out = dumped \o <<ExceptionLogged(fault)>>]
             ELSE [st EXCEPT !.branch = "usr2", !.queue = left,
                             !.out = dumped \o
                                     <<Out("fr", <<>>, flightrecorder)>>]
        ELSE IF Suppressed(signum, ignore_sigterm)
        THEN [st EXCEPT !.branch = "ignored", !.flag = FALSE]
        ELSE IF fault = "exit_shell"
        THEN [st EXCEPT !.out = <<ExceptionLogged(fault)>>]
        ELSE IF fault = "loop.quit"
        THEN [st EXCEPT !.shell_exited = (@ \/ SHELL_IN_USE # None),
                        !.run = 0,
                        !.out = <<Out("log_error", <<"Exiting daemon", signum>>,
                                      <<>>),
                                  ExceptionLogged(fault)>>]
        ELSE [st EXCEPT !.shell_exited = (@ \/ SHELL_IN_USE # None),
                        !.run = 0,
                        !.loop = IF loop = None THEN None ELSE "quit",
                        !.out = <<Out("log_error", <<"Exiting daemon", signum>>,
                                      <<>>)>>]

NoSignal ==
    [signum |-> None, origin |-> None, flag |-> FALSE, run |-> 1,
     loop |-> None, branch |-> None, raised |-> None, ret |-> None]

SignalInit ==
    /\ ignore_sigterm \in BOOLEAN
    /\ run = 1
    /\ loop \in {None, "running"}
    /\ SHELL_IN_USE \in {None, "shell"}
    /\ shell_exited = FALSE
    /\ args_debug \in BOOLEAN
    /\ debug_queue = <<>>
    /\ sg_pending = ignore_sigterm
    /\ sg_last = NoSignal
    /\ sg_out = <<>>

SignalIdle ==
    /\ ignore_sigterm = FALSE
    /\ run = 1
    /\ loop = None
    /\ SHELL_IN_USE = None
    /\ shell_exited = FALSE
    /\ args_debug = FALSE
    /\ debug_queue = <<>>
    /\ sg_pending = FALSE
    /\ sg_last = NoSignal
    /\ sg_out = <<>>

\* log_debug(msg) on any thread: written out in debug mode, else kept in
\* cfg.debug
LogDebug(m) ==
    /\ IF args_debug
       THEN /\ sg_out' = <<Out("log_debug", <<m>>, <<>>)>>
            /\ UNCHANGED debug_queue
       ELSE /\ debug_queue' = DequeAppend(debug_queue, m)
            /\ sg_out' = <<>>
    /\ UNCHANGED <<ignore_sigterm, run, loop, SHELL_IN_USE, shell_exited,
                   args_debug, sg_pending, sg_last>>
    /\ UNCHANGED notSignal

\* handler(signum), the whole call
Handler(signum, origin, fault, log) ==
    /\ origin = "internal" => (signum = SIGTERM /\ sg_pending)
    /\ fault \in Reached(signum) \cup {None}
    /\ fault = None => log = "written"
    /\ \E e \in {HandlerEffect(signum, fault)} :
           /\ ignore_sigterm' = e.flag
           /\ debug_queue' = e.queue
           /\ run' = e.run
           /\ loop' = e.loop
           /\ shell_exited' = e.shell_exited
           /\ sg_out' = HandlerOut(e.out, fault, log)
           /\ sg_last' = [signum |-> signum, origin |-> origin,
                          flag |-> ignore_sigterm, run |-> run, loop |-> loop,
                          branch |-> e.branch, raised |-> fault,
                          ret |-> HandlerReturn(fault, log)]
    /\ sg_pending' = IF origin = "internal" THEN FALSE ELSE sg_pending
    /\ UNCHANGED <<SHELL_IN_USE, args_debug>>
    /\ UNCHANGED notSignal

SignalNext ==
    \/ \E m \in Msgs : LogDebug(m)
    \/ \E signum \in Signals, origin \in Origins,
          fault \in FaultPoints \cup {None}, log \in LogOutcomes :
            Handler(signum, origin, fault, log)

(***************************************************************************)
(* utils.py: LockFile.  Every daemon instance is a process of its own that *)
(* runs "with LockFile(path):" around its main body; fcntl.lockf takes a   *)
(* lock the kernel keeps per file and per process.                         *)
(***************************************************************************)
Instances == 1..MaxInstances

\* as LockfFails, with a lock that never conflicts
LockfNeverFails(holder, p) == FALSE

\* fcntl.lockf(self.fd, LOCK_EX | LOCK_NB) raises OSError when another
\* process holds the lock
LockfFails(holder, p) == holder # 0 /\ holder # p

LockInit ==
    /\ lock_holder = 0
    /\ inst_pc = [p \in Instances |-> "start"]
    /\ inst_status = [p \in Instances |-> -1]
    /\ inst_log = [p \in Instances |-> None]
    /\ inst_entered = [p \in Instances |-> FALSE]
    /\ inst_contended = [p \in Instances |-> FALSE]

LockIdle == LockInit

\* __enter__: self.fd = os.open(...), that goes through or raises OSError,
\* then the two fcntl calls on the descriptor
LockOpen(p, ok) ==
    /\ inst_pc[p] = "start"
    /\ IF ok
       THEN /\ inst_pc' = [inst_pc EXCEPT ![p] = "opened"]
            /\ UNCHANGED <<inst_status, inst_log>>
       ELSE /\ inst_pc' = [inst_pc EXCEPT ![p] = "exit"]
            /\ inst_status' = [inst_status EXCEPT ![p] = 114]
            /\ inst_log' = [inst_log EXCEPT ![p] = "Error during creation"]
    /\ UNCHANGED <<lock_holder, inst_entered, inst_contended>>
    /\ UNCHANGED notLock

\* __enter__: fcntl.lockf(self.fd, fcntl.LOCK_EX | fcntl.LOCK_NB); on
\* OSError log and sys.exit(114), else the body of the with statement begins
LockLockf(p) ==
    /\ inst_pc[p] = "opened"
    /\ inst_contended' = [inst_contended EXCEPT
                            ![p] = lock_holder # 0 /\ lock_holder # p]
    /\ IF LockfFails(lock_holder, p)
       THEN /\ inst_pc' = [inst_pc EXCEPT ![p] = "exit"]
            /\ inst_status' = [inst_status EXCEPT ![p] = 114]
            /\ inst_log' = [inst_log EXCEPT ![p] = "Daemon already running"]
            /\ UNCHANGED <<lock_holder, inst_entered>>
       ELSE /\ lock_holder' = p
            /\ inst_pc' = [inst_pc EXCEPT ![p] = "body"]
            /\ inst_entered' = [inst_entered EXCEPT ![p] = TRUE]
            /\ UNCHANGED <<inst_status, inst_log>>
    /\ UNCHANGED notLock

\* __exit__: os.close(self.fd), which gives up the lock of the process
LockExit(p) ==
    /\ inst_pc[p] = "body"
    /\ lock_holder' = IF lock_holder = p THEN 0 ELSE lock_holder
    /\ inst_pc' = [inst_pc EXCEPT ![p] = "closed"]
    /\ UNCHANGED <<inst_status, inst_log, inst_entered, inst_contended>>
    /\ UNCHANGED notLock

LockNext ==
    \/ \E p \in Instances, ok \in BOOLEAN : LockOpen(p, ok)
    \/ \E p \in Instances : LockLockf(p)
    \/ \E p \in Instances : LockExit(p)

(***************************************************************************)
(* utils.py: add_config_option and add_no_notify.  An argument is the      *)
(* sequence of the words it is made of, so that appending " %s" % value to *)
(* an argument appends a word to it.                                       *)
(***************************************************************************)
Word(w) == <<w>>
Arguments == {Word("help"), Word("--config"), Word("devices/a=1"), Word("lvs")}

\* as FirstIndex, for the last element equal to key
RECURSIVE LastIndex(_, _, _)
LastIndex(argv, key, i) ==
    IF i > Len(argv) THEN 0
    ELSE LET r == LastIndex(argv, key, i + 1)
         IN  IF r # 0 THEN r ELSE IF argv[i] = key THEN i ELSE 0

\* the index of the first element of cmdline equal to key, 0 when none is
RECURSIVE FirstIndex(_, _, _)
FirstIndex(argv, key, i) ==
    IF i > Len(argv) THEN 0
    ELSE IF argv[i] = key THEN i
    ELSE FirstIndex(argv, key, i + 1)

\* "x in cmdline"
In(x, argv) == FirstIndex(argv, x, 1) # 0

\* as add_config_option, but the pair is always appended
add_config_option_appending(argv, key, value) ==
    [fault |-> None, list |-> argv \o <<key, Word(value)>>]

\* add_config_option(cmdline, key, value): the fault it raises, if any, and
\* the list cmdline, here argv, as the call leaves it (the list is changed
\* in place and is also what is returned)
add_config_option(argv, key, value) ==
    IF In(Word("help"), argv) THEN [fault |-> None, list |-> argv]
    ELSE IF In(key, argv)
    THEN LET i == FirstIndex(argv, key, 1)
         IN  IF Len(argv) <= i
             THEN [fault |-> "DBusException", list |-> argv]
             ELSE [fault |-> None,
                   list |-> [argv EXCEPT ![i + 1] = Append(@, value)]]
    ELSE [fault |-> None, list |-> argv \o <<key, Word(value)>>]

ConfigInit ==
    /\ cmdline \in SeqsUpTo(Arguments, MaxArgs)
    /\ cmdline0 = cmdline
    /\ got_external_event \in BOOLEAN
    /\ cfg_pc = "call"
    /\ cfg_rv = <<>>
    /\ cfg_fault = None

ConfigIdle ==
    /\ cmdline = <<>>
    /\ cmdline0 = <<>>
    /\ got_external_event = FALSE
    /\ cfg_pc = "idle"
    /\ cfg_rv = <<>>
    /\ cfg_fault = None

\* add_no_notify(cmdline)
AddNoNotify ==
    /\ cfg_pc = "call"
    /\ cfg_pc' = "done"
    /\ IF got_external_event
       THEN \E r \in {add_config_option(cmdline, Word("--config"),
                                        "global/notify_dbus=0")} :
               /\ cmdline' = r.list
               /\ cfg_fault' = r.fault
               /\ cfg_rv' = IF r.fault = None THEN r.list ELSE <<>>
       ELSE /\ cfg_rv' = cmdline
            /\ UNCHANGED <<cmdline, cfg_fault>>
    /\ UNCHANGED <<cmdline0, got_external_event>>
    /\ UNCHANGED notConfig

ConfigNext == AddNoNotify

ClassifyNext == Classify

AllocNext ==
    \/ \E w \in Workers, g \in Generators : GenNext(w, g)
    \/ \E w \in Workers : GenReturn(w)

InitClassify ==
    ConfigIdle /\ LockIdle /\ ClassifyInit /\ AllocIdle /\ BrokerIdle /\ MoveIdle /\ RunnerIdle /\
    SignalIdle

SpecClassify == InitClassify /\ [][ClassifyNext]_vars

InitAlloc ==
    ConfigIdle /\ LockIdle /\ AllocInit /\ ClassifyIdle /\ BrokerIdle /\ MoveIdle /\ RunnerIdle /\
    SignalIdle

SpecAlloc == InitAlloc /\ [][AllocNext]_vars

InitBroker ==
    ConfigIdle /\ LockIdle /\ BrokerInit /\ ClassifyIdle /\ AllocIdle /\ MoveIdle /\ RunnerIdle /\
    SignalIdle

SpecBroker == InitBroker /\ [][BrokerNext]_vars

InitMove ==
    ConfigIdle /\ LockIdle /\ MoveInit /\ ClassifyIdle /\ AllocIdle /\ BrokerIdle /\ RunnerIdle /\
    SignalIdle

SpecMove == InitMove /\ [][MoveNext]_vars

InitRunner ==
    ConfigIdle /\ LockIdle /\ RunnerInit /\ ClassifyIdle /\ AllocIdle /\ BrokerIdle /\ MoveIdle /\
    SignalIdle

SpecRunner == InitRunner /\ [][RunnerNext]_vars

InitSignal ==
    SignalInit /\ ConfigIdle /\ LockIdle /\ ClassifyIdle /\ AllocIdle /\ BrokerIdle /\ RunnerIdle /\
    MoveAtRest /\ flightrecorder \in SeqsUpTo({OldMeta}, FrCap) /\
    fr0 = flightrecorder

SpecSignal == InitSignal /\ [][SignalNext]_vars

InitLock ==
    LockInit /\ ConfigIdle /\ ClassifyIdle /\ AllocIdle /\ BrokerIdle /\ MoveIdle /\
    RunnerIdle /\ SignalIdle

SpecLock == InitLock /\ [][LockNext]_vars

InitConfig ==
    ConfigInit /\ ClassifyIdle /\ AllocIdle /\ BrokerIdle /\ MoveIdle /\
    RunnerIdle /\ SignalIdle /\ LockIdle

SpecConfig == InitConfig /\ [][ConfigNext]_vars

(***************************************************************************)
(* The claims.                                                             *)
(***************************************************************************)

\* C1: every request handed to cmd_runner gets a thread of its own, its
\* run_cmd() is called once and never twice, a started request is never left
\* without a step to take, and a finished one ended in exactly one outcome.
C1_EachRequestRunsOnce ==
    \A r \in Requests :
        /\ run_count[r] <= 1
        /\ Len(outcomes[r]) <= 1
        /\ threads[r] # "none" =>
            /\ tids[r] # 0
            /\ \A q \in Requests \ {r} : tids[q] # tids[r]
            /\ threads[r] # "finished" =>
                ENABLED (RunCmdCall(r) \/ \E o \in RunOutcomes : RunCmdEnds(r, o))
        /\ threads[r] = "finished" =>
            /\ run_count[r] = 1
            /\ Len(outcomes[r]) = 1
            /\ outcomes[r][1] \in RunOutcomes

\* two requests running at the same time while a third has ended in a fault
C1_Witness ==
    \E a, b, c \in Requests :
        /\ a # b
        /\ threads[a] = "running" /\ threads[b] = "running"
        /\ threads[c] = "finished" /\ outcomes[c] = <<"fault">>

\* C2: job_state.Percent never decreases during one move/merge, stays in
\* 0..100, and once the exit code has been looked at it is 100 exactly when
\* the exit code was 0.
C2_PercentContract ==
    /\ \A i \in 1..Len(percent_log) : percent_log[i].v \in 0..100
    /\ \A i, j \in 1..Len(percent_log) :
        i < j => percent_log[i].v <= percent_log[j].v
    /\ (lvm_result.set /\ mv_pc \in {"load", "done", "fault"}) =>
        (job_state.Percent = 100 <=> lvm_result.ec = 0)

IsApplied(n) == \E j \in 1..Len(applied) : applied[j].call = n
AppliedAt(n) == CHOOSE j \in 1..Len(applied) : applied[j].call = n

\* C3: MThreadRunner.done() returns only after the function has been executed
\* on the dispatch thread, and it ends as that execution ended: it returns
\* the value the function returned, or raises the fault the function raised.
C3_DoneReturnsFunctionResult ==
    \A i \in 1..Len(finished) :
        \E j \in 1..Len(applied) :
            /\ applied[j].call = finished[i].call
            /\ applied[j].did = finished[i].got

\* a done() that re-raised the function's fault and one that returned its value
C3_Witness ==
    \E i, k \in 1..Len(finished) :
        /\ finished[i].got.t = "raise"
        /\ finished[k].got.t = "return"
        /\ finished[k].got.v \in Values

\* C4: callbacks handed to idle_add by mt_async_call and MThreadRunner.done,
\* from any workers, are executed in the order of their submission: if a was
\* submitted before b and b has been executed, a was executed before it.
C4_AppliedInSubmissionOrder ==
    \A a, b \in 1..Len(calls) :
        (a < b /\ IsApplied(b)) =>
            (IsApplied(a) /\ AppliedAt(a) < AppliedAt(b))

\* an mt_async_call and a done() of two different workers, both executed
C4_Witness ==
    \E i, j \in 1..Len(applied) :
        /\ i < j
        /\ calls[applied[i].call].kind # calls[applied[j].call].kind
        /\ calls[applied[i].call].by # calls[applied[j].call].by

\* C5: a fault raised by a marshalled callback never reaches the dispatch
\* loop: _async_handler logs it, MThreadRunner._run stores it in the object,
\* and the loop is ready to run the next queued callback.
C5_FaultsStayInHandlers ==
    /\ loop_fault = None
    /\ \A j \in 1..Len(applied) :
        applied[j].did.t = "raise" =>
            IF calls[applied[j].call].kind = "async"
            THEN \E k \in 1..Len(log_errors) :
                    log_errors[k] = [call |-> applied[j].call,
                                     fault |-> applied[j].did.v]
            ELSE calls[applied[j].call].exception = applied[j].did.v
    /\ (d_pc = "loop" /\ idle_q # <<>>) => ENABLED (AsyncHandler \/ RunnerRun)

\* both kinds of callback raised, and a callback queued after them was executed
C5_Witness ==
    \E i, j, k \in 1..Len(applied) :
        /\ i < j /\ j < k
        /\ applied[i].did.t = "raise" /\ applied[j].did.t = "raise"
        /\ calls[applied[i].call].kind # calls[applied[j].call].kind
        /\ "SystemExit" \in {applied[i].did.v, applied[j].did.v}

\* C6: during a move/merge job_state.Percent is assigned, and the reload is
\* run, on the dispatch thread only.
C6_MutatedOnlyOnDispatchThread ==
    /\ \A i \in 1..Len(percent_log) : percent_log[i].by = MainThread
    /\ \A i \in 1..Len(loads) : loads[i] = MainThread

AllocatedIncreasing ==
    \A i, j \in 1..Len(allocated) :
        (i < j /\ allocated[i][1] = allocated[j][1]) =>
            allocated[i][2] < allocated[j][2]

ReturnedDistinct ==
    \A i, j \in 1..Len(returned) : i # j => returned[i] # returned[j]

OtherCountersKept ==
    IF Len(allocated') = Len(allocated) + 1
    THEN LET g == allocated'[Len(allocated')][1]
         IN  \A o \in Generators \ {g} : ids'[Counter(o)] = ids[Counter(o)]
    ELSE ids' = ids

\* C7: in every category the integers drawn by successive allocations are
\* strictly increasing, no path is handed out twice, and an allocation in
\* one category leaves the counters of all other categories unchanged, for
\* every interleaving of the workers' allocations.
C7_PathIdsIncrease ==
    /\ [](AllocatedIncreasing /\ ReturnedDistinct)
    /\ [][OtherCountersKept]_vars

\* two allocations of one category with one of another category between
\* them, both workers inside a generator at once
C7_Witness ==
    /\ Len(allocated) = 3
    /\ allocated[1][1] = allocated[3][1]
    /\ allocated[2][1] # allocated[1][1]
    /\ allocated[3][2] = 1
    /\ Len(returned) >= 1
    /\ \A w \in Workers : gen_pc[w] = "format"

Hidden == Len(lv_name) > 0 /\ lv_name[1] = "["
TypeCode(c) == Len(lv_meta[1]) > 0 /\ lv_meta[1][1] = c
InPool == "pool" \in lv_meta[2]

\* C8: the hidden name prefix wins over every type code; on a name that is
\* not hidden, type code t gives the thin pool, d the vdo pool, C together
\* with pool membership the cache pool, and C without pool membership the
\* default logical volume.
C8_Precedence ==
    cls_pc = "done" =>
        /\ Hidden => path_method = "_hidden_lv_obj_path_generate"
        /\ (Len(lv_name) > 0 /\ ~Hidden) =>
            /\ TypeCode("t") => path_method = "_thin_pool_obj_path_generate"
            /\ TypeCode("d") => path_method = "_vdo_pool_object_path_generate"
            /\ (TypeCode("C") /\ InPool) =>
                    path_method = "_cache_pool_obj_path_generate"
            /\ (TypeCode("C") /\ ~InPool) =>
                    path_method = "_lv_obj_path_generate"
            /\ TypeCode("-") => path_method = "_lv_obj_path_generate"

\* a hidden name whose type code is t and whose layout has pool: hidden wins
C8_Witness ==
    /\ cls_pc = "done"
    /\ Hidden /\ TypeCode("t") /\ InPool
    /\ path_method = "_hidden_lv_obj_path_generate"

\* C9: lv_object_path_method returns one of the generators for every name
\* and attribute tuple, the empty name and the empty type code included.
C9_Total == cls_pc = "done" => path_method \in Generators

Unresolved ==
    \/ mv_op.kind = "move" /\
         (~mv_op.src_ok \/ \E i \in 1..Len(mv_op.dests) : ~mv_op.dests[i])
    \/ mv_op.kind = "merge" /\ ~mv_op.lv_ok

\* C10: a move whose source or one of whose destinations does not resolve,
\* and a merge whose LV does not resolve, ends in a fault with no external
\* process started, nothing added to the flight recorder and no assignment
\* to job_state.Percent.
C10_UnresolvedFaultsFirst ==
    Unresolved =>
        /\ mv_pc \in {"start", "fault"}
        /\ mv_pc = "fault" => mv_fault.kind = "DBusException"
        /\ spawned = 0
        /\ flightrecorder = fr0
        /\ percent_log = <<>>
        /\ job_state.Percent = 0

\* a move whose second destination does not resolve has faulted, with an
\* earlier command's entry in the flight recorder
C10_Witness ==
    /\ mv_pc = "fault"
    /\ mv_op.kind = "move" /\ mv_op.src_ok /\ mv_op.dests = <<TRUE, FALSE>>
    /\ mv_fault.msg = <<"PV Destination not found">>
    /\ Len(fr0) = 1
    /\ flightrecorder = fr0

\* the command of the call, and the flight recorder entries that carry it
MoveCommand == IF mv_op.kind = "move" THEN pv_move_lv_cmd ELSE lv_merge_cmd
InvocationEntries ==
    {i \in 1..Len(flightrecorder) : flightrecorder[i].cmd = MoveCommand}

ExitFaulted == mv_pc = "fault" /\ lvm_result.set

\* C11: when the external command of a move or merge has ended with a
\* nonzero exit code, the call has faulted with a DBusException that carries
\* the interface name of the call and a message holding the exit code and
\* the captured stderr, and the flight recorder holds exactly one entry of
\* this invocation, completed with that exit code, the earlier entries
\* being the ones it held before.
C11_NonzeroExitFaults ==
    /\ (mv_pc \in {"check", "load", "done"} /\ lvm_result.ec # 0) =>
        mv_pc = "check"
    /\ ExitFaulted =>
        /\ lvm_result.ec # 0
        /\ mv_fault.kind = "DBusException"
        /\ mv_fault.interface_name = mv_op.interface_name
        /\ \E i \in 1..Len(mv_fault.msg) :
                mv_fault.msg[i] = ToString(lvm_result.ec)
        /\ \E i \in 1..Len(mv_fault.msg) :
                mv_fault.msg[i] = lvm_result.stderr
        /\ InvocationEntries = {Len(flightrecorder)}
        /\ flightrecorder[Len(flightrecorder)].ended
        /\ flightrecorder[Len(flightrecorder)].ec = lvm_result.ec
        /\ \A i \in 1..(Len(flightrecorder) - 1) : flightrecorder[i] = OldMeta

\* a merge on the Lv interface has faulted on exit code 5 with a stderr
\* text, the flight recorder having been full before the call
C11_Witness ==
    /\ ExitFaulted
    /\ mv_op.kind = "merge" /\ mv_op.interface_name = "com.redhat.lvmdbus1.Lv"
    /\ lvm_result.ec = 5 /\ lvm_result.stderr = "insufficient free space"
    /\ mv_fault.msg = <<"Exit code ", "5", ", stderr = ",
                        "insufficient free space">>
    /\ Len(fr0) = FrCap

\* h/100 to the nearest integer, a half upwards
Nearest(h) == (h + 50) \div 100

\* C12: every progress line "<device>:<ignored>:<percentage>%" sets
\* Percent to the percentage rounded to the nearest integer, so that
\* "/dev/sda:0:42.5%" sets it to 43, and exit code 0 after the lines sets
\* it to 100.
C12_PercentRoundedToNearest ==
    /\ \A i \in 1..Len(percent_log) :
        percent_log[i].src = "line" =>
            percent_log[i].v = Nearest(percent_log[i].h)
    /\ (mv_pc \in {"load", "done"}) => job_state.Percent = 100

\* the lines of C13: the wrong number of ':', or a field that is no number
NonMatching(line) == line.colons # 2 \/ ~line.num

\* what _move_callback leaves alone on a line it does not take
LineIgnored ==
    UNCHANGED <<job_state, percent_log, worker_q, mv_fault, mv_pc, lvm_result,
                flightrecorder, loads>>

HundredSet == {i \in 1..Len(percent_log) : percent_log[i].src = "exit"}

\* C20: _move_merge runs its final cfg.load() once when the exit code is
\* 0, and not before it has set Percent to 100; on a nonzero exit code it
\* faults with no final load and without having set Percent to 100.
C20_FinalLoadOnceAfterHundred ==
    /\ Len(loads) <= 1
    /\ loads # <<>> =>
        /\ lvm_result.set /\ lvm_result.ec = 0
        /\ HundredSet = {Len(percent_log)}
        /\ job_state.Percent = 100
    /\ mv_pc = "done" => Len(loads) = 1
    /\ (lvm_result.set /\ lvm_result.ec # 0) =>
        /\ loads = <<>>
        /\ HundredSet = {}
        /\ mv_pc \in {"returned", "check", "fault"}

\* a call whose command reported 42.5% and ended with exit code 0 is done:
\* Percent went from 42 to 100 and the final load has run once
C20_Witness ==
    /\ mv_pc = "done"
    /\ loads = <<OpThread>>
    /\ Len(percent_log) = 2
    /\ percent_log[1].v = 42 /\ percent_log[2].v = 100
    /\ job_state.Percent = 100

\* C18: cmd_runner returns without waiting for the operation of its
\* request, so whatever the requests in flight are doing, a request not yet
\* submitted can be submitted and a started thread can enter its operation.
C18_NoHeadOfLineBlocking ==
    \A r \in Requests :
        /\ threads[r] = "none" => ENABLED cmd_runner(r)
        /\ threads[r] = "started" => ENABLED RunCmdCall(r)

\* a request submitted after one that is still running has already finished,
\* and a third one can still be submitted
C18_Witness ==
    \E a, b, c \in Requests :
        /\ tids[a] # 0 /\ tids[a] < tids[b]
        /\ threads[a] = "running"
        /\ threads[b] = "finished"
        /\ threads[c] = "none"

\* the last call of handler was for a termination signal
TerminationSignal == sg_last.signum \in Signals \ {SIGUSR1, SIGUSR2}

\* C14: with cfg.ignore_sigterm set, the SIGTERM the daemon caused itself
\* clears the flag and leaves the daemon running (cfg.run.value and the
\* loop as they were); a SIGTERM that finds the flag clear stops the daemon
\* (when no call of handler raises); and a termination signal that came
\* from outside is never suppressed.
C14_OwnSigtermSuppressedOnce ==
    /\ (sg_last.signum = SIGTERM /\ sg_last.flag
            /\ sg_last.origin = "internal") =>
        /\ ~ignore_sigterm
        /\ run = sg_last.run /\ loop = sg_last.loop
    /\ (sg_last.signum = SIGTERM /\ ~sg_last.flag /\ sg_last.raised = None) =>
        /\ run = 0
        /\ sg_last.loop # None => loop = "quit"
    /\ (TerminationSignal /\ sg_last.origin = "external") =>
        sg_last.branch # "ignored"

\* C15: a termination signal that is not suppressed (any signal but SIGUSR1
\* and SIGUSR2, a SIGTERM that finds the flag clear and another signal that
\* finds it set included) sets cfg.run.value to 0 and tells the loop, when
\* there is one, to quit; and no call of handler that finds cfg.run.value
\* at 0 leaves it nonzero.
C15_TerminationStopsDaemon ==
    /\ (TerminationSignal /\ ~(sg_last.signum = SIGTERM /\ sg_last.flag)) =>
        /\ run = 0
        /\ (sg_last.loop # None /\ sg_last.raised # "loop.quit") =>
            loop = "quit"
    /\ (sg_last.signum # None /\ sg_last.run = 0) => run = 0

\* something of the given kind is among what the step writes out
Written(what, lines, entries) ==
    \E i \in 1..Len(sg_out') : sg_out'[i] = Out(what, lines, entries)

\* C19: a call of handler for SIGUSR1 whose dump goes through writes out
\* the queued debug lines and the thread stacks and leaves the debug queue
\* empty; one for SIGUSR2 writes out the flight recorder and leaves it as
\* it was; and no call for either signal, whether a dump raises or not,
\* changes cfg.run.value or the loop.
C19_DumpsAndTheirState ==
    [][\A origin \in Origins, fault \in FaultPoints \cup {None},
          log \in LogOutcomes :
        /\ Handler(SIGUSR1, origin, fault, log) =>
            /\ UNCHANGED <<run, loop, flightrecorder>>
            /\ fault = None =>
                /\ debug_queue # <<>> => Written("debug", debug_queue, <<>>)
                /\ Written("stacks", <<>>, <<>>)
                /\ debug_queue' = <<>>
        /\ Handler(SIGUSR2, origin, fault, log) =>
            /\ UNCHANGED <<run, loop, flightrecorder>>
            /\ fault = None => Written("fr", <<>>, flightrecorder)]_vars

\* handler(SIGUSR1) has written two queued debug lines and the stacks, and
\* the queue is empty, with an entry in the flight recorder and the loop
\* still running
C19_Witness ==
    /\ sg_last.signum = SIGUSR1 /\ sg_last.raised = None
    /\ sg_out = <<Out("debug", <<"m1", "m2">>, <<>>), Out("stacks", <<>>, <<>>)>>
    /\ debug_queue = <<>>
    /\ Len(flightrecorder) = 1
    /\ run = 1 /\ loop = "running"

\* C16: at most one instance is inside the body guarded by the lock file,
\* and it is the holder of the lock; an instance that tries to take the
\* lock while another holds it ends with exit status 114 and has never
\* entered the body, as does every instance that exits from __enter__.
C16_SingleInstance ==
    /\ Cardinality({p \in Instances : inst_pc[p] = "body"}) <= 1
    /\ \A p \in Instances :
        /\ inst_pc[p] = "body" => lock_holder = p
        /\ inst_contended[p] => inst_pc[p] = "exit"
        /\ inst_pc[p] = "exit" =>
            /\ inst_status[p] = 114
            /\ ~inst_entered[p]

\* while one instance is inside the body, a second has tried the lock and
\* exited with status 114, and a third has the file open
C16_Witness ==
    \E p, q, r \in Instances :
        /\ inst_pc[p] = "body" /\ lock_holder = p
        /\ inst_pc[q] = "exit" /\ inst_contended[q] /\ inst_status[q] = 114
        /\ inst_pc[r] = "opened"

NoNotify == "global/notify_dbus=0"

\* the list returned is the list handed in with NoNotify joined on to the
\* element after position i, every other element where and what it was
JoinedAfter(i) ==
    /\ i + 1 <= Len(cmdline0)
    /\ Len(cfg_rv) = Len(cmdline0)
    /\ cfg_rv[i + 1] = Append(cmdline0[i + 1], NoNotify)
    /\ \A j \in 1..Len(cmdline0) : j # i + 1 => cfg_rv[j] = cmdline0[j]

\* the list returned is the list handed in with the pair added at its end
PairAppended ==
    /\ Len(cfg_rv) = Len(cmdline0) + 2
    /\ cfg_rv[Len(cfg_rv) - 1] = Word("--config")
    /\ cfg_rv[Len(cfg_rv)] = Word(NoNotify)
    /\ \A j \in 1..Len(cmdline0) : cfg_rv[j] = cmdline0[j]

ConfigAt == {i \in 1..Len(cmdline0) : cmdline0[i] = Word("--config")}
HelpAt == {i \in 1..Len(cmdline0) : cmdline0[i] = Word("help")}
FirstConfig == CHOOSE i \in ConfigAt : \A j \in ConfigAt : i <= j

LineAssignments == {i \in 1..Len(percent_log) : percent_log[i].src = "line"}

\* _move_callback is between its assignment to Percent and its put
PutPending == IF mv_pc = "worker_q.put" THEN 1 ELSE 0

\* C21: every delivered line "<device>:<ignored>:<number>%" queues one
\* reload request on cfg.worker_q, after Percent has been assigned from
\* that line: at any moment the requests queued are as many as the
\* assignments made for lines, less the one whose put is still to come,
\* and once call_lvm has returned they are as many as the matching lines.
C21_OneReloadPerMatchingLine ==
    /\ \A i \in 1..Len(worker_q) : worker_q[i] = "_load_wrapper"
    /\ Cardinality(LineAssignments) = n_match
    /\ Len(worker_q) = Cardinality(LineAssignments) - PutPending
    /\ mv_pc = "worker_q.put" =>
        /\ percent_log[Len(percent_log)].src = "line"
        /\ job_state.Percent = percent_log[Len(percent_log)].v
    /\ lvm_result.set => Len(worker_q) = n_match

\* two matching lines have been delivered; the first has queued its
\* request, the second has set Percent to 42 and not yet queued its own
C21_Witness ==
    /\ mv_pc = "worker_q.put"
    /\ n_match = 2
    /\ Len(worker_q) = 1
    /\ job_state.Percent = 42

\* the newest entry of the flight recorder
LastEntry == flightrecorder[Len(flightrecorder)]

\* the recorder holds what it held before the call, the oldest entry
\* dropped if it was full, and one entry of this invocation after them
OneEntryAdded ==
    /\ InvocationEntries = {Len(flightrecorder)}
    /\ Len(flightrecorder) =
        IF Len(fr0) >= FrCap THEN FrCap ELSE Len(fr0) + 1
    /\ \A i \in 1..(Len(flightrecorder) - 1) : flightrecorder[i] = OldMeta

\* C22: the flight recorder entry of a move/merge is added before the
\* external command is started and is not completed while the command
\* runs; it is completed with the end, the exit code, stdout and stderr of
\* the command before Percent is set to 100 or the fault for the exit code
\* is raised; and the invocation adds exactly one entry, whatever the exit
\* code.
C22_EntryAddedThenCompleted ==
    /\ spawned <= 1
    /\ mv_pc \in {"start", "_move_merge"} => flightrecorder = fr0
    /\ (spawned = 1 \/ mv_pc = "call_lvm") => OneEntryAdded
    /\ mv_pc \in {"call_lvm", "running", "worker_q.put", "returned"} =>
        ~LastEntry.ended
    /\ (HundredSet # {} \/ ExitFaulted \/ mv_pc \in {"check", "load", "done"}) =>
        /\ LastEntry.ended
        /\ LastEntry.ec = lvm_result.ec
        /\ LastEntry.stdout = lvm_result.stdout
        /\ LastEntry.stderr = lvm_result.stderr

\* a call that found one entry in the recorder is done with exit code 0:
\* the recorder holds that entry and the completed entry of the call
C22_Witness ==
    /\ mv_pc = "done"
    /\ lvm_result.ec = 0
    /\ Len(fr0) = 1 /\ Len(flightrecorder) = 2
    /\ flightrecorder[1] = OldMeta
    /\ LastEntry = [cmd |-> MoveCommand, ended |-> TRUE, ec |-> 0,
                    stdout |-> "out", stderr |-> lvm_result.stderr]

\* how many times the marshalled callback of call c has been executed
TimesApplied(c) == Cardinality({j \in 1..Len(applied) : applied[j].call = c})

\* call c is still among the idle sources
Queued(c) == \E k \in 1..Len(idle_q) : idle_q[k] = c

\* C23: a done() whose callback the dispatch loop has run can always go on
\* until it ends, in every interleaving: function_complete is set with the
\* condition's lock held and after rc or exception has been recorded, the
\* worker tests it with the same lock held before it waits, a parked worker
\* whose flag is set has been notified, the worker reads the result only
\* when the flag is set, and every marshalled callback is executed once,
\* when it leaves the idle sources.
C23_CallAndWaitTerminates ==
    /\ \A c \in 1..Len(calls) :
        /\ TimesApplied(c) = IF Queued(c) THEN 0 ELSE 1
        /\ calls[c].waiting => ~calls[c].function_complete
        /\ calls[c].function_complete =>
            /\ IsApplied(c)
            /\ DoneValue(calls[c]) = applied[AppliedAt(c)].did
    /\ d_pc = "set" => calls[d_obj].lock = "main"
    /\ d_pc \in {"notify", "set"} =>
        /\ ~calls[d_obj].function_complete
        /\ DoneValue(calls[d_obj]) = applied[AppliedAt(d_obj)].did
    /\ \A w \in Workers :
        /\ w_pc[w] = "test" => calls[w_obj[w]].lock = w
        /\ w_pc[w] = "wait" =>
            \/ calls[w_obj[w]].waiting /\ ~calls[w_obj[w]].function_complete
            \/ calls[w_obj[w]].notified /\ calls[w_obj[w]].function_complete
        /\ w_pc[w] = "result" => calls[w_obj[w]].function_complete
        /\ (w_pc[w] # "idle" /\ IsApplied(w_obj[w])) =>
            \/ ENABLED (DoneAcquire(w) \/ DoneTest(w) \/ DoneWake(w)
                        \/ DoneResult(w))
            \/ d_obj = w_obj[w] /\ ENABLED (RunnerAcquire \/ RunnerComplete)

\* one worker was parked in cond.wait() when the flag was set and has been
\* notified, while the other took the lock after the flag was set and went
\* on without waiting; one function returned a value, the other raised
C23_Witness ==
    \E w, x \in Workers :
        /\ w_pc[w] = "wait" /\ calls[w_obj[w]].notified
        /\ calls[w_obj[w]].exception # None
        /\ w_pc[x] = "result" /\ ~calls[w_obj[x]].notified
        /\ calls[w_obj[x]].rc # None

\* C24: handler never leaves with a fault: whatever the signal and the
\* state, and whichever of its calls raises, it returns True.
C24_HandlerReturnsTrue ==
    sg_last.signum # None => sg_last.ret = "True"

\* add_config_option has been called with the list cmdline0 handed in
OptionAdded == cfg_pc = "done" /\ got_external_event

\* the list is as it was but for the element after position i, which has
\* NoNotify joined on to it
ExtendedAfter(i) ==
    /\ Len(cmdline) = Len(cmdline0)
    /\ cmdline[i + 1] = Append(cmdline0[i + 1], NoNotify)
    /\ \A j \in 1..Len(cmdline0) : j # i + 1 => cmdline[j] = cmdline0[j]

\* C25 as stated: add_config_option leaves a list with the element 'help'
\* unchanged; with more than one '--config' no element but the one after
\* the first '--config' is extended; and with '--config' as the last
\* element (of a list without 'help') it raises a fault and leaves the list
\* unchanged.
C25_ConfigOptionCases ==
    OptionAdded =>
        /\ HelpAt # {} => cmdline = cmdline0
        /\ Cardinality(ConfigAt) > 1 =>
            (cmdline = cmdline0 \/ ExtendedAfter(FirstConfig))
        /\ (HelpAt = {} /\ Len(cmdline0) \in ConfigAt) =>
            (cfg_fault # None /\ cmdline = cmdline0)

\* C25, amended: a list with 'help' is left unchanged and no fault is
\* raised; in a list without 'help' it is the first '--config' that
\* counts: when an element follows it, that element and no other is
\* extended, whatever comes after it, a further '--config' at the end
\* included; when it is the last element, a fault is raised and the list
\* is left unchanged; and a fault is raised in no other case.
C25_FirstConfigOptionCases ==
    OptionAdded =>
        /\ HelpAt # {} => (cfg_fault = None /\ cmdline = cmdline0)
        /\ (HelpAt = {} /\ ConfigAt # {}) =>
            IF FirstConfig = Len(cmdline0)
            THEN cfg_fault = "DBusException" /\ cmdline = cmdline0
            ELSE cfg_fault = None /\ ExtendedAfter(FirstConfig)
        /\ cfg_fault # None =>
            (HelpAt = {} /\ ConfigAt = {Len(cmdline0)})

\* the list --config, devices/a=1, --config: the value of the first
\* '--config' is extended, the '--config' at the end stays, no fault
C25_Witness ==
    /\ OptionAdded
    /\ cmdline0 = <<Word("--config"), Word("devices/a=1"), Word("--config")>>
    /\ cmdline = <<Word("--config"), <<"devices/a=1", NoNotify>>,
                   Word("--config")>>
    /\ cfg_fault = None

====
